---- MODULE Spec2Model ----
(***************************************************************************)
(* Convolutional encoder / Viterbi decoder of bms.py.                      *)
(*                                                                         *)
(* Characters of a text message are represented by their code points       *)
(* (ord/chr); characters of bit strings by the strings "0" and "1".        *)
(* A Python list is a sequence; list indexes in comments are 0-based as in *)
(* the source, sequences here are 1-based.                                 *)
(***************************************************************************)
EXTENDS Integers, Sequences, FiniteSets, TLC

VARIABLES
    defaults,     \* the default-argument list object [5,53,46] shared by encode and decode
    config,       \* the caller's params list, <<>> when the caller passes none
    byDefault,    \* TRUE when the call omits config
    op,           \* the function called: "encode" or "decode"
    input_str,    \* the call's first argument
    pc,           \* "start", "encode_loop", "decode_loop", "decode_select", "returned",
                  \* "raised"
    state,        \* encode: the register list `state`
    input_bin,    \* encode: flush zeros + message bits
    idx_y,        \* indexes_y of getIndexes
    idx_z,        \* indexes_z of getIndexes
    res,          \* encode: the output buffer `res`
    i,            \* number of loop iterations still to run
    input_pairs,  \* decode: the list of 2-character pairs
    paths,        \* decode: the list of (path, error_count, state) tuples
    best_path,    \* decode: the selected path, <<>> for the empty tuple
    result,       \* the returned list
    exc,          \* the exception that ended the call, "none" otherwise
    calls,        \* number of calls started so far
    first,        \* arguments and outcome of the first call that ended
    prev,         \* arguments and outcome of the call before the current one
    sent,         \* the message given to the encode call whose output is being decoded
    channel       \* how the call's input was obtained: "none", "direct", "clean",
                  \* "flip", "odd", "again"

vars == <<defaults, config, byDefault, op, input_str, pc, state, input_bin, idx_y,
          idx_z, res, i, input_pairs, paths, best_path, result, exc, calls, first, prev, sent, channel>>

----------------------------------------------------------------------------
(* Bounds of the model *)

MaxX == 2          \* largest register length of an explicit config
NegX == 1          \* explicit configs reach down to X = -NegX
MaxPoly == 5       \* largest polynomial of an explicit config
MaxLen == 1        \* longest message over Alphabet
MaxRecv == 6       \* longest bit string given directly to decode
MaxCalls == 2      \* calls in one run

MaxPermLen == 4    \* candidate lists up to this length are tried in every order

Alphabet == {65, 122}                                \* "A", "z"
NonAscii == {233}                                    \* a character of code >= 128
AlphaNum == (48..57) \cup (65..90) \cup (97..122)    \* [0-9A-Za-z]

----------------------------------------------------------------------------
(* Python helpers *)

Max(a, b) == IF a >= b THEN a ELSE b
Min(a, b) == IF a <= b THEN a ELSE b

\* [v for x in range(n)]
Repeat(v, n) == [k \in 1..Max(n, 0) |-> v]

\* seq[start:] for a start index that may be negative (Python slice rules;
\* -0 is 0, so seq[-0:] is the whole list)
SliceFrom(seq, start) ==
    LET from == IF start < 0 THEN Max(Len(seq) + start, 0) ELSE Min(start, Len(seq))
    IN  SubSeq(seq, from + 1, Len(seq))

RECURSIVE Digits(_)
\* binary digits of n >= 0, most significant first
Digits(n) == IF n < 2 THEN <<IF n = 1 THEN "1" ELSE "0">>
             ELSE Digits(n \div 2) \o <<IF n % 2 = 1 THEN "1" ELSE "0">>

\* bin(n).replace('b','') : '0b101' -> '0101', '-0b101' -> '-0101'
BinNoB(n) == IF n < 0 THEN <<"-", "0">> \o Digits(0 - n) ELSE <<"0">> \o Digits(n)

RECURSIVE Flatten(_)
Flatten(seqs) == IF seqs = <<>> THEN <<>> ELSE Head(seqs) \o Flatten(Tail(seqs))

\* int(c) for a character '0' or '1'
IntOf(c) == IF c = "1" THEN 1 ELSE 0
\* str(b) for a bit
StrOf(b) == IF b = 1 THEN "1" ELSE "0"

RECURSIVE IntBase2(_)
\* int(x, 2) for a string of '0'/'1'
IntBase2(x) == IF x = <<>> THEN 0
               ELSE 2 * IntBase2(SubSeq(x, 1, Len(x) - 1)) + IntOf(x[Len(x)])

RECURSIVE XorReduce(_)
\* reduce(lambda x, y: x ^ y, tmp) for a non-empty list of bits
XorReduce(tmp) == IF Len(tmp) = 1 THEN tmp[1]
                  ELSE (XorReduce(SubSeq(tmp, 1, Len(tmp) - 1)) + tmp[Len(tmp)]) % 2

\* the config the call reads: the default object when none was passed
Cfg == IF byDefault THEN defaults ELSE config

----------------------------------------------------------------------------
(* getIndexes *)

\* conf_y / conf_z: X zeros + bin digits, cut to the last X+1 characters
\* the leading X+1 characters of the padded string instead of the trailing ones
ConfBitsHigh(X, P) == SubSeq(Repeat("0", X) \o BinNoB(P), 1, X + 1)

ConfBits(X, P) == SliceFrom(Repeat("0", X) \o BinNoB(P), 0 - (X + 1))

RECURSIVE IndexesOf(_, _)
\* [idx for idx, val in enumerate(conf) if val == '1'], 0-based, ascending;
\* n is the number of leading elements of conf already enumerated
IndexesOf(conf, n) ==
    IF n = Len(conf) THEN <<>>
    ELSE (IF conf[n + 1] = "1" THEN <<n>> ELSE <<>>) \o IndexesOf(conf, n + 1)

getIndexes(cfg) ==
    [y |-> IndexesOf(ConfBits(cfg[1], cfg[2]), 0),
     z |-> IndexesOf(ConfBits(cfg[1], cfg[3]), 0)]

----------------------------------------------------------------------------
(* calculateOutput *)

\* the 2-bit output for `branch` and `st`, or the exception raised on the way:
\* buffer[idx] past the end is an IndexError, reduce of an empty list a TypeError
calculateOutput(branch, st, indexes_y, indexes_z) ==
    LET buffer == <<branch>> \o st
        inRange(ixs) == \A k \in 1..Len(ixs) : ixs[k] < Len(buffer)
        tmp(ixs) == [k \in 1..Len(ixs) |-> buffer[ixs[k] + 1]]
    IN  IF ~inRange(indexes_y) \/ ~inRange(indexes_z)
          THEN [exc |-> "IndexError", y |-> 0, z |-> 0]
        ELSE IF indexes_y = <<>> \/ indexes_z = <<>>
          THEN [exc |-> "TypeError", y |-> 0, z |-> 0]
        ELSE [exc |-> "none", y |-> XorReduce(tmp(indexes_y)),
                              z |-> XorReduce(tmp(indexes_z))]

\* state.pop(0); state.append(branch): the new bit at the far end
ShiftAppend(st, branch) == Tail(st) \o <<branch>>

\* state.pop(); state.insert(0, branch) on a non-empty list
Shift(st, branch) == <<branch>> \o SubSeq(st, 1, Len(st) - 1)

----------------------------------------------------------------------------
(* encode *)

\* ('00000000' + bin(ord(c))).replace('b','')[-8:] as a list of ints
CharBits(c) ==
    LET s == SliceFrom(Repeat("0", 8) \o BinNoB(c), 0 - 8)
    IN  [k \in 1..Len(s) |-> IntOf(s[k])]

MessageBits(s) == Flatten([k \in 1..Len(s) |-> CharBits(s[k])])

NoFirst == [op |-> "none"]

\* `res` kept from the previous call, as a mutable default argument would be
EncodeEnterSharedRes ==
    /\ pc = "start" /\ op = "encode"
    /\ state' = Repeat(0, Cfg[1])
    /\ input_bin' = Repeat(0, Cfg[1]) \o MessageBits(input_str)
    /\ idx_y' = getIndexes(Cfg).y
    /\ idx_z' = getIndexes(Cfg).z
    /\ i' = Len(input_bin')
    /\ pc' = "encode_loop"
    /\ UNCHANGED <<defaults, config, byDefault, op, input_str, res, input_pairs, paths,
                   best_path, result, exc, calls, first, prev, sent, channel>>

\* lines 78-84: buffers, register, input bits and tap indexes
EncodeEnter ==
    /\ pc = "start" /\ op = "encode"
    /\ res' = <<>>
    /\ state' = Repeat(0, Cfg[1])
    /\ input_bin' = Repeat(0, Cfg[1]) \o MessageBits(input_str)
    /\ idx_y' = getIndexes(Cfg).y
    /\ idx_z' = getIndexes(Cfg).z
    /\ i' = Len(input_bin')
    /\ pc' = "encode_loop"
    /\ UNCHANGED <<defaults, config, byDefault, op, input_str, input_pairs, paths,
                   best_path, result, exc, calls, first, prev, sent, channel>>

\* the call ends with exception e
Raise(e) ==
    /\ pc' = "raised"
    /\ exc' = e
    /\ result' = <<>>
    /\ first' = IF first.op = "none"
                THEN [op |-> op, input |-> input_str, exc |-> e, result |-> <<>>]
                ELSE first

\* the call returns r
Return(r) ==
    /\ pc' = "returned"
    /\ exc' = "none"
    /\ result' = r
    /\ first' = IF first.op = "none"
                THEN [op |-> op, input |-> input_str, exc |-> "none", result |-> r]
                ELSE first

\* the pair appended to `res` instead of inserted at its front
EncodeStepAppend ==
    /\ pc = "encode_loop" /\ i >= 1
    /\ LET branch == input_bin[i]
           out == calculateOutput(branch, state, idx_y, idx_z)
       IN  IF out.exc # "none"
             THEN Raise(out.exc) /\ UNCHANGED <<res, state, i>>
           ELSE IF state = <<>>
             THEN Raise("IndexError") /\ res' = res \o <<out.y, out.z>>
                                      /\ UNCHANGED <<state, i>>
           ELSE /\ res' = res \o <<out.y, out.z>>
                /\ state' = Shift(state, branch)
                /\ i' = i - 1
                /\ UNCHANGED <<pc, exc, result, first>>
    /\ UNCHANGED <<defaults, config, byDefault, op, input_str, input_bin, idx_y, idx_z,
                   input_pairs, paths, best_path, calls, prev, sent, channel>>

\* lines 87-90: one iteration of `for branch in input_bin[::-1]`
EncodeStep ==
    /\ pc = "encode_loop" /\ i >= 1
    /\ LET branch == input_bin[i]
           out == calculateOutput(branch, state, idx_y, idx_z)
       IN  IF out.exc # "none"
             THEN Raise(out.exc) /\ UNCHANGED <<res, state, i>>
           ELSE IF state = <<>>                               \* pop from empty list
             THEN Raise("IndexError") /\ res' = <<out.y, out.z>> \o res
                                      /\ UNCHANGED <<state, i>>
           ELSE /\ res' = <<out.y, out.z>> \o res
                /\ state' = Shift(state, branch)
                /\ i' = i - 1
                /\ UNCHANGED <<pc, exc, result, first>>
    /\ UNCHANGED <<defaults, config, byDefault, op, input_str, input_bin, idx_y, idx_z,
                   input_pairs, paths, best_path, calls, prev, sent, channel>>

\* line 92
EncodeReturn ==
    /\ pc = "encode_loop" /\ i = 0
    /\ Return([k \in 1..Len(res) |-> StrOf(res[k])])
    /\ UNCHANGED <<defaults, config, byDefault, op, input_str, state, input_bin, idx_y,
                   idx_z, res, i, input_pairs, paths, best_path, calls, prev, sent, channel>>

----------------------------------------------------------------------------
(* calculateHammingDist and eval_step *)

\* str(bin(v)).count('1') for v in 0..3
OnesOf(v) == (v % 2) + (v \div 2)

\* expected_val ^ input_val for two 2-bit values
Xor2(a, b) == 2 * (((a \div 2) + (b \div 2)) % 2) + (((a % 2) + (b % 2)) % 2)

\* the numeric difference of the two values instead of the count of differing bits
calculateHammingDistAbs(branch, st, indexes_y, indexes_z, pair) ==
    LET out == calculateOutput(branch, st, indexes_y, indexes_z)
        expected_val == IntBase2(<<StrOf(out.y), StrOf(out.z)>>)
        input_val == IntBase2(pair)
    IN  IF out.exc # "none" THEN [exc |-> out.exc, dist |-> 0]
        ELSE [exc |-> "none", dist |-> Max(expected_val, input_val)
                                           - Min(expected_val, input_val)]

calculateHammingDist(branch, st, indexes_y, indexes_z, pair) ==
    LET out == calculateOutput(branch, st, indexes_y, indexes_z)
        expected_val == IntBase2(<<StrOf(out.y), StrOf(out.z)>>)
        input_val == IntBase2(pair)
    IN  IF out.exc # "none" THEN [exc |-> out.exc, dist |-> 0]
        ELSE [exc |-> "none", dist |-> OnesOf(Xor2(expected_val, input_val))]

\* the register shifted by slicing, which raises nothing on an empty list
eval_step_sliced(p, indexes_y, indexes_z, pair) ==
    LET err_a == calculateHammingDist(0, p.state, indexes_y, indexes_z, pair)
        err_b == calculateHammingDist(1, p.state, indexes_y, indexes_z, pair)
    IN  IF err_a.exc # "none" THEN [exc |-> err_a.exc, new |-> <<>>]
        ELSE IF err_b.exc # "none" THEN [exc |-> err_b.exc, new |-> <<>>]
        ELSE [exc |-> "none",
              new |-> << [path |-> <<"0">> \o p.path, err |-> p.err + err_a.dist,
                          state |-> Shift(p.state, 0)],
                         [path |-> <<"1">> \o p.path, err |-> p.err + err_b.dist,
                          state |-> Shift(p.state, 1)] >>]

\* the decided bit put at the end of the path instead of its front
eval_step_path_appended(p, indexes_y, indexes_z, pair) ==
    IF p.state = <<>> THEN [exc |-> "IndexError", new |-> <<>>]
    ELSE
    LET state_a == Shift(p.state, 0)
        state_b == Shift(p.state, 1)
        err_a == calculateHammingDist(0, p.state, indexes_y, indexes_z, pair)
        err_b == calculateHammingDist(1, p.state, indexes_y, indexes_z, pair)
    IN  IF err_a.exc # "none" THEN [exc |-> err_a.exc, new |-> <<>>]
        ELSE IF err_b.exc # "none" THEN [exc |-> err_b.exc, new |-> <<>>]
        ELSE [exc |-> "none",
              new |-> << [path |-> p.path \o <<"0">>, err |-> p.err + err_a.dist,
                          state |-> state_a],
                         [path |-> p.path \o <<"1">>, err |-> p.err + err_b.dist,
                          state |-> state_b] >>]

\* the two paths that extend `p`, or the exception raised on the way
eval_step(p, indexes_y, indexes_z, pair) ==
    IF p.state = <<>> THEN [exc |-> "IndexError", new |-> <<>>]   \* pop from empty list
    ELSE
    LET state_a == Shift(p.state, 0)
        state_b == Shift(p.state, 1)
        err_a == calculateHammingDist(0, p.state, indexes_y, indexes_z, pair)
        err_b == calculateHammingDist(1, p.state, indexes_y, indexes_z, pair)
    IN  IF err_a.exc # "none" THEN [exc |-> err_a.exc, new |-> <<>>]
        ELSE IF err_b.exc # "none" THEN [exc |-> err_b.exc, new |-> <<>>]
        ELSE [exc |-> "none",
              new |-> << [path |-> <<"0">> \o p.path, err |-> p.err + err_a.dist,
                          state |-> state_a],
                         [path |-> <<"1">> \o p.path, err |-> p.err + err_b.dist,
                          state |-> state_b] >>]

----------------------------------------------------------------------------
(* decode *)

\* list(zip(input_str[::2], input_str[1::2])) joined into 2-character strings
PairsOf(s) == [k \in 1..(Len(s) \div 2) |-> <<s[2 * k - 1], s[2 * k]>>]

\* Python's list comparison a < b
ListLess(a, b) ==
    \/ \E k \in 1..Min(Len(a), Len(b)) :
          /\ a[k] < b[k]
          /\ \A j \in 1..(k - 1) : a[j] = b[j]
    \/ /\ Len(a) < Len(b)
       /\ \A j \in 1..Len(a) : a[j] = b[j]

RECURSIVE Merge(_, _)
\* merge of two lists sorted by state; on equal states the left one goes first
Merge(a, b) ==
    IF a = <<>> THEN b
    ELSE IF b = <<>> THEN a
    ELSE IF ListLess(b[1].state, a[1].state) THEN <<b[1]>> \o Merge(a, Tail(b))
    ELSE <<a[1]>> \o Merge(Tail(a), b)

\* groupby() applied to the unsorted list
SortedByStateOmitted(ps) == ps

RECURSIVE SortedByState(_)
\* sorted(new_paths, key = lambda x: x[STATE]): stable, ascending by state
SortedByState(ps) ==
    IF Len(ps) <= 1 THEN ps
    ELSE LET h == Len(ps) \div 2
         IN  Merge(SortedByState(SubSeq(ps, 1, h)), SortedByState(SubSeq(ps, h + 1, Len(ps))))

RECURSIVE RunLength(_, _)
\* length of the run of elements of ps, from the first, whose state is that of
\* ps[1]; the first n elements are known to belong to it
RunLength(ps, n) ==
    IF n < Len(ps) /\ ps[n + 1].state = ps[1].state THEN RunLength(ps, n + 1) ELSE n

RECURSIVE GroupByState(_)
\* groupby(..., key = lambda x: x[STATE]): the runs of consecutive equal states
GroupByState(ps) ==
    IF ps = <<>> THEN <<>>
    ELSE LET n == RunLength(ps, 1)
         IN  <<SubSeq(ps, 1, n)>> \o GroupByState(SubSeq(ps, n + 1, Len(ps)))

\* the last element of least error_count instead of the first
MinByErrLast(item) ==
    LET k == CHOOSE k \in 1..Len(item) :
                 /\ \A j \in 1..Len(item) : item[k].err <= item[j].err
                 /\ \A j \in (k + 1)..Len(item) : item[j].err > item[k].err
    IN  item[k]

\* min() replaced by item[0]
MinByErrFirst(item) == item[1]

\* min(item, key = lambda t: t[ERR_C]): the first element of least error_count
MinByErr(item) ==
    LET k == CHOOSE k \in 1..Len(item) :
                 /\ \A j \in 1..Len(item) : item[k].err <= item[j].err
                 /\ \A j \in 1..(k - 1) : item[j].err > item[k].err
    IN  item[k]

\* min() replaced by item[-1]: the candidate generated last is kept
ReducePathsLastSeen(new_paths) ==
    LET grouped_paths == GroupByState(SortedByState(new_paths))
    IN  [n \in 1..Len(grouped_paths) |-> grouped_paths[n][Len(grouped_paths[n])]]

\* lines 220-227: one survivor per state
ReducePaths(new_paths) ==
    LET grouped_paths == GroupByState(SortedByState(new_paths))
    IN  [n \in 1..Len(grouped_paths) |-> MinByErr(grouped_paths[n])]

RECURSIVE EvalAll(_, _, _, _)
\* lines 215-217: new_paths += eval_step(path, ...) for every path, in order
EvalAll(ps, indexes_y, indexes_z, pair) ==
    IF ps = <<>> THEN [exc |-> "none", new |-> <<>>]
    ELSE LET head == eval_step(Head(ps), indexes_y, indexes_z, pair)
             rest == EvalAll(Tail(ps), indexes_y, indexes_z, pair)
         IN  IF head.exc # "none" THEN head
             ELSE IF rest.exc # "none" THEN rest
             ELSE [exc |-> "none", new |-> head.new \o rest.new]

SysMaxsize == 2147483647   \* sys.maxsize, cut to the largest integer of the checker

RECURSIVE BestFrom(_, _, _)
\* lines 233-238: the first path of strictly smaller error_count wins
BestFrom(ps, best, min_err) ==
    IF ps = <<>> THEN best
    ELSE IF Head(ps).err < min_err THEN BestFrom(Tail(ps), Head(ps), Head(ps).err)
    ELSE BestFrom(Tail(ps), best, min_err)

\* `<=` in place of `<`: the last path of least error_count wins
BestPathLast(ps) ==
    LET k == CHOOSE k \in 1..Len(ps) :
                 /\ \A j \in 1..Len(ps) : ps[k].err <= ps[j].err
                 /\ \A j \in (k + 1)..Len(ps) : ps[j].err > ps[k].err
    IN  ps[k]

\* the first path taken as the best one
BestPathFirst(ps) == ps[1]

BestPath(ps) == BestFrom(ps, <<>>, SysMaxsize)

\* re.findall('........', s)
Chunks8(s) == [k \in 1..(Len(s) \div 8) |-> SubSeq(s, 8 * k - 7, 8 * k)]

\* chr(int(x,2)) if int(x,2) < 128 else '' : a string of one character or none
CharOf(x) == IF IntBase2(x) < 128 THEN <<IntBase2(x)>> ELSE <<>>

\* the flush prefix kept: best_path[PATH] cut into chunks from its start
AssembleNoSkip(best, X) ==
    LET res_bin == Chunks8(best.path)
    IN  [k \in 1..Len(res_bin) |-> CharOf(res_bin[k])]

\* lines 241-249 for the selected path
Assemble(best, X) ==
    LET res_bin == Chunks8(SliceFrom(best.path, X))
    IN  [k \in 1..Len(res_bin) |-> CharOf(res_bin[k])]

\* lines 196-210
DecodeEnter ==
    /\ pc = "start" /\ op = "decode"
    /\ state' = Repeat(0, Cfg[1])
    /\ input_pairs' = PairsOf(input_str)
    /\ idx_y' = getIndexes(Cfg).y
    /\ idx_z' = getIndexes(Cfg).z
    /\ paths' = << [path |-> <<>>, err |-> 0, state |-> state'] >>
    /\ i' = Len(input_pairs')
    /\ pc' = "decode_loop"
    /\ best_path' = <<>>
    /\ UNCHANGED <<defaults, config, byDefault, op, input_str, input_bin, res,
                   result, exc, calls, first, prev, sent, channel>>

\* lines 213-230: one iteration of `for pair in input_pairs[::-1]`
DecodeStep ==
    /\ pc = "decode_loop" /\ i >= 1
    /\ LET new_paths == EvalAll(paths, idx_y, idx_z, input_pairs[i])
       IN  IF new_paths.exc # "none"
             THEN Raise(new_paths.exc) /\ UNCHANGED <<paths, i>>
           ELSE /\ paths' = ReducePaths(new_paths.new)
                /\ i' = i - 1
                /\ UNCHANGED <<pc, exc, result, first>>
    /\ UNCHANGED <<defaults, config, byDefault, op, input_str, state, input_bin, idx_y,
                   idx_z, res, input_pairs, best_path, calls, prev, sent, channel>>

\* lines 232-238
DecodeSelect ==
    /\ pc = "decode_loop" /\ i = 0
    /\ best_path' = BestPath(paths)
    /\ pc' = "decode_select"
    /\ UNCHANGED <<defaults, config, byDefault, op, input_str, state, input_bin, idx_y,
                   idx_z, res, i, input_pairs, paths, result, exc, calls, first, prev,
                   sent, channel>>

\* lines 240-249
DecodeReturn ==
    /\ pc = "decode_select"
    /\ Return(Assemble(best_path, Cfg[1]))
    /\ UNCHANGED <<defaults, config, byDefault, op, input_str, state, input_bin, idx_y,
                   idx_z, res, i, input_pairs, paths, best_path, calls, prev, sent, channel>>

----------------------------------------------------------------------------
(* Callers: main() and a test harness around encode and decode.  The harness *)
(* is the environment of the two functions: it draws the arguments of the    *)
(* first call, may pass an encoded stream on to decode (as it is, or with    *)
(* one bit flipped), may decode an even-length bit string again with one     *)
(* more bit, and may repeat the first call.  first, prev, sent, channel and  *)
(* calls are its bookkeeping; the functions never read them.                 *)

RECURSIVE SeqsUpTo(_, _)
\* all sequences over S of length at most n
SeqsUpTo(S, n) ==
    IF n = 0 THEN {<<>>}
    ELSE LET shorter == SeqsUpTo(S, n - 1)
         IN  shorter \cup {Append(s, c) : s \in {t \in shorter : Len(t) = n - 1}, c \in S}

\* explicit params lists [X, Y, Z]
Configs == {<<X, Y, Z>> : X \in (0 - NegX)..MaxX, Y \in 1..MaxPoly, Z \in 1..MaxPoly}

Messages == SeqsUpTo(Alphabet \cup NonAscii, MaxLen)
Received == SeqsUpTo({"0", "1"}, MaxRecv)

DefaultConfig == <<5, 53, 46>>

\* everything but the first call's arguments
InitRest ==
    /\ defaults = DefaultConfig
    /\ pc = "start"
    /\ state = <<>> /\ input_bin = <<>> /\ idx_y = <<>> /\ idx_z = <<>>
    /\ res = <<>> /\ i = 0 /\ input_pairs = <<>> /\ paths = <<>> /\ best_path = <<>>
    /\ result = <<>> /\ exc = "none"
    /\ calls = 1
    /\ first = NoFirst
    /\ prev = NoFirst
    /\ sent = <<>>

\* encode(input) / encode(input, params) or decode(input) / decode(input, params)
Init ==
    /\ InitRest
    /\ \/ byDefault = TRUE /\ config = <<>>
       \/ byDefault = FALSE /\ config \in Configs
    /\ \/ op = "encode" /\ input_str \in Messages /\ channel = "none"
       \/ op = "decode" /\ input_str \in Received /\ channel = "direct"

\* the caller starts another call
NewCall ==
    /\ calls < MaxCalls
    /\ calls' = calls + 1
    /\ pc' = "start"
    /\ prev' = [op |-> op, input |-> input_str, exc |-> exc, result |-> result]
    /\ UNCHANGED <<defaults, config, byDefault, state, input_bin, idx_y, idx_z, res, i,
                   input_pairs, paths, best_path, result, exc, first>>

\* the encoded stream is decoded with the same config
TransmitClean ==
    /\ pc = "returned" /\ op = "encode" /\ channel = "none"
    /\ NewCall
    /\ op' = "decode"
    /\ sent' = input_str
    /\ input_str' = result
    /\ channel' = "clean"

\* the encoded stream with exactly one bit flipped is decoded with the same config
TransmitFlip ==
    /\ pc = "returned" /\ op = "encode" /\ channel = "none"
    /\ NewCall
    /\ \E p \in 1..Len(result) :
          input_str' = [result EXCEPT ![p] = IF result[p] = "1" THEN "0" ELSE "1"]
    /\ op' = "decode"
    /\ sent' = input_str
    /\ channel' = "flip"

\* an even-length bit string that was decoded is decoded again with a bit appended
CallOdd ==
    /\ pc \in {"returned", "raised"} /\ op = "decode" /\ channel = "direct"
    /\ Len(input_str) % 2 = 0
    /\ NewCall
    /\ \E b \in {"0", "1"} : input_str' = Append(input_str, b)
    /\ channel' = "odd"
    /\ UNCHANGED <<op, sent>>

\* the first call is made once more with the same arguments
CallAgain ==
    /\ pc \in {"returned", "raised"} /\ channel # "again"
    /\ NewCall
    /\ op' = first.op
    /\ input_str' = first.input
    /\ channel' = "again"
    /\ sent' = <<>>

Next ==
    \/ EncodeEnter \/ EncodeStep \/ EncodeReturn
    \/ DecodeEnter \/ DecodeStep \/ DecodeSelect \/ DecodeReturn
    \/ TransmitClean \/ CallOdd \/ CallAgain

Spec == Init /\ [][Next]_vars

\* the default config over a channel that flips one bit
NoisyChars == (48..57) \cup {65, 90, 97, 122}         \* "0".."9", "A", "Z", "a", "z"
NoisyMessages == SeqsUpTo(Alphabet, MaxLen) \cup {<<c>> : c \in NoisyChars}

InitNoisy ==
    /\ InitRest
    /\ byDefault = TRUE /\ config = <<>>
    /\ op = "encode" /\ input_str \in NoisyMessages /\ channel = "none"

NextNoisy ==
    \/ EncodeEnter \/ EncodeStep \/ EncodeReturn
    \/ TransmitFlip
    \/ DecodeEnter \/ DecodeStep \/ DecodeSelect \/ DecodeReturn

SpecNoisy == InitNoisy /\ [][NextNoisy]_vars

\* decode called directly on a received bit string, with an explicit config
\* of positive register length
InitDecode ==
    /\ InitRest
    /\ byDefault = FALSE /\ config \in {c \in Configs : c[1] >= 1}
    /\ op = "decode" /\ input_str \in Received /\ channel = "direct"

NextDecode == DecodeEnter \/ DecodeStep \/ DecodeSelect \/ DecodeReturn

SpecDecode == InitDecode /\ [][NextDecode]_vars

----------------------------------------------------------------------------
(* Properties *)

Ended == pc \in {"returned", "raised"}

\* X > 0, Y > 0, Z > 0
Valid == Cfg[1] > 0 /\ Cfg[2] > 0 /\ Cfg[3] > 0

IsAlnum(s) == \A k \in 1..Len(s) : s[k] \in AlphaNum

\* ''.join(result)
Joined == Flatten(result)

\* C1: for every config with X>0, Y>0, Z>0 and every alphanumeric string s,
\* encode(s, c) returns and decode of its result returns exactly s.
C1_RoundTrip ==
    /\ (op = "encode" /\ Ended /\ Valid /\ IsAlnum(input_str)) => pc = "returned"
    /\ (channel = "clean" /\ Ended /\ Valid /\ IsAlnum(sent))
          => (pc = "returned" /\ Joined = sent)

\* C2: with the default config, decoding encode(s) with exactly one bit flipped
\* returns s, for every alphanumeric s of the model and every bit position.
C2_SingleBitTolerance ==
    (channel = "flip" /\ Ended) => (pc = "returned" /\ Joined = sent)

\* C2 witness: a flipped bit of a non-empty message was corrected
C2_Witness ==
    /\ channel = "flip" /\ pc = "returned" /\ sent # <<>>
    /\ best_path.err = 1 /\ Joined = sent

\* the register that meets d[j]: the bits decided before it, newest first, then zeros
RegisterAt(d, j, X) == [k \in 1..X |-> IF j + k <= Len(d) THEN IntOf(d[j + k]) ELSE 0]

\* number of positions in which two pairs differ
PairDistance(a, b) == (IF a[1] = b[1] THEN 0 ELSE 1) + (IF a[2] = b[2] THEN 0 ELSE 1)

RECURSIVE DistFrom(_, _, _)
\* total distance between the branch outputs of d and the pairs j..M
DistFrom(d, j, pairs) ==
    IF j > Len(pairs) THEN 0
    ELSE LET out == calculateOutput(IntOf(d[j]), RegisterAt(d, j, Len(state)), idx_y, idx_z)
         IN  PairDistance(<<StrOf(out.y), StrOf(out.z)>>, pairs[j]) + DistFrom(d, j + 1, pairs)

TotalDist(d) == DistFrom(d, 1, input_pairs)

\* least total distance over all 2^M bit sequences of length M
BruteMin ==
    LET all == [1..Len(input_pairs) -> {"0", "1"}]
    IN  CHOOSE m \in {TotalDist(d) : d \in all} : \A d \in all : m <= TotalDist(d)

\* C3: the error_count of the path decode selects is the sum of the distances
\* along its own decoded bits, and (for the directly given bit strings, where
\* all 2^M sequences are enumerated) it is the least total distance of any bit
\* sequence of length M.
C3_MaximumLikelihood ==
    pc = "decode_select" =>
        /\ Len(best_path.path) = Len(input_pairs)
        /\ TotalDist(best_path.path) = best_path.err
        /\ Len(input_pairs) <= MaxRecv \div 2 => best_path.err = BruteMin

\* C3 witness: three pairs decoded on a two-state trellis, where paths merge,
\* and the best path is at distance 2 from the received pairs
C3_Witness ==
    /\ pc = "decode_select" /\ Len(input_pairs) = 3 /\ Cfg[1] = 1
    /\ best_path.err = 2

\* C4: for every valid config and every message s, encode returns exactly
\* 2*(X + 8*|s|) bits.
C4_LengthLaw ==
    (op = "encode" /\ Ended /\ Valid)
        => (pc = "returned" /\ Len(result) = 2 * (Cfg[1] + 8 * Len(input_str)))

\* C5: for every even-length r, bit b and valid config, decode(r ++ [b]) raises
\* no error and returns what decode(r) returned.
C5_OddLength ==
    (channel = "odd" /\ Ended /\ Valid)
        => (pc = "returned" /\ prev.exc = "none" /\ result = prev.result)

\* value of the k-th 8-bit chunk of d after its first X bits
ChunkValue(d, X, k) ==
    LET bit(j) == IntOf(d[X + 8 * (k - 1) + j])
    IN  128 * bit(1) + 64 * bit(2) + 32 * bit(3) + 16 * bit(4)
          + 8 * bit(5) + 4 * bit(6) + 2 * bit(7) + bit(8)

C7_NoStateCrossesCalls ==
    [][ /\ defaults' = defaults /\ config' = config /\ byDefault' = byDefault
        /\ (~Ended => input_str' = input_str)
        /\ (channel' = "again" /\ pc' \in {"returned", "raised"})
              => (exc' = first'.exc /\ result' = first'.result) ]_vars

\* C7 witness: an encode call repeated after another call returned a stream
C7_Witness ==
    /\ channel = "again" /\ pc = "returned" /\ op = "encode" /\ result # <<>>
    /\ result = first.result

\* C8: for every config with X>0, Y>0, Z>0 both tap sets are non-empty and the
\* call reaches no error.
C8_Totality ==
    Valid => /\ pc \in {"encode_loop", "decode_loop"} => (idx_y # <<>> /\ idx_z # <<>>)
             /\ pc # "raised"

\* the call has at least one bit (encode) or one pair (decode) to process
HasWork == IF op = "encode" THEN Len(input_str) > 0 ELSE Len(input_str) >= 2

\* C9 as stated: a call reached with X <= 0 ends in an error.
C9_InvalidConfigRaises ==
    (Cfg[1] <= 0 /\ Ended) => pc = "raised"

\* C9 as amended: a call reached with X <= 0 ends in an IndexError or a
\* TypeError when it has a bit or a pair to process, and returns the empty
\* list when it has none.
C9_InvalidConfigOutcome ==
    (Cfg[1] <= 0 /\ Ended) =>
        IF HasWork THEN pc = "raised" /\ exc \in {"IndexError", "TypeError"}
        ELSE pc = "returned" /\ result = <<>>

\* C9 witness: decode of a pair with X <= 0 ended in an exception
C9_Witness ==
    /\ Cfg[1] <= 0 /\ op = "decode" /\ pc = "raised" /\ Len(input_str) >= 2

RECURSIVE ReachableStates(_, _)
\* register states reachable from all-zero in k shifts
ReachableStates(k, X) ==
    IF k = 0 THEN {[j \in 1..X |-> 0]}
    ELSE {<<b>> \o SubSeq(s, 1, X - 1) : s \in ReachableStates(k - 1, X), b \in {0, 1}}

\* decoding steps done in the current decode call
StepsDone == Len(input_pairs) - i

\* C10: after the reduction of every decoding step k >= 1 no two survivors share
\* a state, there is one survivor for each state reachable in k shifts, and
\* there are min(2^k, 2^X) survivors.
C10_SurvivorSet ==
    (pc = "decode_loop" /\ StepsDone >= 1) =>
        LET X == Cfg[1]
            k == StepsDone
        IN  /\ \A m, n \in 1..Len(paths) : paths[m].state = paths[n].state => m = n
            /\ {paths[n].state : n \in 1..Len(paths)} = ReachableStates(k, X)
            /\ Len(paths) = Min(2 ^ k, 2 ^ X)
            /\ Len(paths) <= 2 ^ X

\* C10 witness: on a four-state trellis the third step left four survivors
C10_Witness ==
    /\ pc = "decode_loop" /\ Cfg[1] = 2 /\ StepsDone = 3 /\ Len(paths) = 4

\* a decoding step that completed: one pair consumed, survivors replaced
StepTaken == pc = "decode_loop" /\ pc' = "decode_loop" /\ i' = i - 1

\* the candidate that extends survivor m of `paths` with nextBit b for pair i
CandState(m, b) == <<b>> \o SubSeq(paths[m].state, 1, Len(paths[m].state) - 1)
CandPath(m, b) == <<StrOf(b)>> \o paths[m].path
CandErr(m, b) ==
    LET out == calculateOutput(b, paths[m].state, idx_y, idx_z)
    IN  paths[m].err + PairDistance(<<StrOf(out.y), StrOf(out.z)>>, input_pairs[i])

\* candidates in enumeration order: survivors in list order, nextBit 0 before 1
Candidates == (1..Len(paths)) \X {0, 1}
EnumBefore(c, d) == c[1] < d[1] \/ (c[1] = d[1] /\ c[2] < d[2])

\* the list is in strictly ascending order of register state
AscendingStates(ps) ==
    \A m, n \in 1..Len(ps) : m < n => ListLess(ps[m].state, ps[n].state)

\* C11: in every decoding step the survivor kept for a state has the least
\* metric of the candidates reaching that state and, among those of least
\* metric, is the first in enumeration order: the one extended from the
\* previous survivor of smallest register state, nextBit 0 before nextBit 1;
\* the previous survivors are enumerated in ascending order of register state.
C11_PerStateTieBreak ==
    [][ StepTaken =>
          /\ AscendingStates(paths)
          /\ \A n \in 1..Len(paths') :
                LET q == paths'[n]
                    reach == {c \in Candidates : CandState(c[1], c[2]) = q.state}
                    winners == {c \in reach :
                                   \A d \in reach : CandErr(c[1], c[2]) <= CandErr(d[1], d[2])}
                    kept == CHOOSE c \in winners : \A d \in winners \ {c} : EnumBefore(c, d)
                IN  /\ reach # {}
                    /\ q.err = CandErr(kept[1], kept[2])
                    /\ q.path = CandPath(kept[1], kept[2])
                    /\ \A d \in winners \ {kept} :
                          \/ ListLess(paths[kept[1]].state, paths[d[1]].state)
                          \/ (kept[1] = d[1] /\ kept[2] < d[2]) ]_vars

\* C11 witness: after at least one step, two candidates of the next step reach
\* the same state with the same metric
C11_Witness ==
    /\ pc = "decode_loop" /\ i >= 1 /\ StepsDone >= 1
    /\ idx_y # <<>> /\ idx_z # <<>>
    /\ \E c, d \in Candidates :
          /\ c # d
          /\ CandState(c[1], c[2]) = CandState(d[1], d[2])
          /\ CandErr(c[1], c[2]) = CandErr(d[1], d[2])

\* C12: decode selects a survivor of least error_count and, when several have
\* it, the first of them in the order of the survivor list, which is ascending
\* in register state.
C12_FinalSelection ==
    pc = "decode_select" =>
        /\ AscendingStates(paths)
        /\ \E n \in 1..Len(paths) :
              /\ best_path = paths[n]
              /\ \A m \in 1..Len(paths) : paths[m].err >= paths[n].err
              /\ \A m \in 1..(n - 1) : paths[m].err > paths[n].err

\* C12 witness: a later survivor has the same least error_count as the selected one
C12_Witness ==
    /\ pc = "decode_select"
    /\ \E m, n \in 1..Len(paths) :
          m < n /\ best_path = paths[m] /\ paths[n].err = paths[m].err

\* C13: with combined = X zeros ++ messageBits, the k-th pair of the stream
\* encode returns is the branch output of combined[k] with the register
\* holding the X bits that follow it in combined, the nearest first and zeros
\* past the end, y before z.
C13_EncoderOutputOrder ==
    (op = "encode" /\ pc = "returned" /\ Cfg[1] >= 1) =>
        LET X == Cfg[1]
            combined == Repeat(0, X) \o MessageBits(input_str)
        IN  /\ Len(result) = 2 * Len(combined)
            /\ \A k \in 1..Len(combined) :
                  LET reg == [j \in 1..X |-> IF k + j <= Len(combined)
                                             THEN combined[k + j] ELSE 0]
                      out == calculateOutput(combined[k], reg, idx_y, idx_z)
                  IN  /\ result[2 * k - 1] = StrOf(out.y)
                      /\ result[2 * k] = StrOf(out.z)

\* C13 witness: a non-empty message was encoded into pairs that are not all alike
C13_Witness ==
    /\ op = "encode" /\ pc = "returned" /\ Cfg[1] >= 1
    /\ Len(input_str) >= 1
    /\ \E k \in 2..(Len(result) \div 2) :
          <<result[2 * k - 1], result[2 * k]>> # <<result[1], result[2]>>

\* bit `pos`, counted from the left, of the low-order X+1 bits of P
TapBit(X, P, pos) == (P \div 2^(X - pos)) % 2

\* the set of positions listed in an index list
TapSet(ixs) == {ixs[k] : k \in 1..Len(ixs)}

\* C14: for X > 0 and P > 0, position pos of 0..X is a tap exactly when bit
\* pos, counted from the left, of the low-order X+1 bits of P (zero-padded on
\* the left) is 1; P and P mod 2^(X+1) give the same taps.
C14_TapSetDerivation ==
    (pc # "start" /\ Valid) =>
        LET X == Cfg[1]
            low == <<X, Cfg[2] % 2^(X + 1), Cfg[3] % 2^(X + 1)>>
        IN  /\ TapSet(idx_y) \subseteq 0..X /\ TapSet(idx_z) \subseteq 0..X
            /\ \A pos \in 0..X :
                  /\ pos \in TapSet(idx_y) <=> TapBit(X, Cfg[2], pos) = 1
                  /\ pos \in TapSet(idx_z) <=> TapBit(X, Cfg[3], pos) = 1
            /\ getIndexes(low).y = idx_y
            /\ getIndexes(low).z = idx_z

\* C14 witness: a polynomial with more than X+1 bits left a non-empty tap set
C14_Witness ==
    /\ pc # "start" /\ Valid
    /\ Cfg[2] >= 2^(Cfg[1] + 1)
    /\ idx_y # <<>>

\* the bit shifted into the encoder's register d iterations before the one
\* that consumes input_bin[j]; zero when the register still holds its initial
\* cell
ShiftedIn(j, d) == IF j + d <= Len(input_bin) THEN input_bin[j + d] ELSE 0

\* the bit a survivor decided d steps back; zero before the first step
Decided(p, d) == IF d <= Len(p.path) THEN IntOf(p.path[d]) ELSE 0

\* C15 as stated: the register cells that follow the new bit in the branch
\* buffer are ordered oldest to newest.
C15_OldestToNewest ==
    /\ (pc = "encode_loop" /\ Cfg[1] >= 1) =>
          \A k \in 1..Len(state) : state[k] = ShiftedIn(i, Len(state) + 1 - k)
    /\ (pc = "decode_loop" /\ Cfg[1] >= 1) =>
          \A n \in 1..Len(paths) :
             \A k \in 1..Len(paths[n].state) :
                paths[n].state[k] = Decided(paths[n], Len(paths[n].state) + 1 - k)

\* C15 as amended: the register cells that follow the new bit in the branch
\* buffer are ordered newest to oldest: cell k holds the bit shifted in k
\* shifts ago, so a shift drops the last cell and puts the new bit first; the
\* pair last emitted by encode is the XOR of the taps over the new bit at
\* position 0 followed by those cells.
C15_NewestToOldest ==
    /\ (pc = "encode_loop" /\ Cfg[1] >= 1) =>
          /\ Len(state) = Cfg[1]
          /\ \A k \in 1..Len(state) : state[k] = ShiftedIn(i, k)
          /\ i < Len(input_bin) =>
                LET buffer == <<input_bin[i + 1]>> \o
                                  [k \in 1..Len(state) |-> ShiftedIn(i + 1, k)]
                IN  /\ res[1] = XorReduce([k \in 1..Len(idx_y) |-> buffer[idx_y[k] + 1]])
                    /\ res[2] = XorReduce([k \in 1..Len(idx_z) |-> buffer[idx_z[k] + 1]])
    /\ (pc = "decode_loop" /\ Cfg[1] >= 1) =>
          \A n \in 1..Len(paths) :
             /\ Len(paths[n].state) = Cfg[1]
             /\ \A k \in 1..Len(paths[n].state) :
                   paths[n].state[k] = Decided(paths[n], k)

\* C15 witness: a register of two cells holds two different bits during encode
C15_Witness ==
    /\ pc = "encode_loop" /\ Cfg[1] >= 2 /\ i < Len(input_bin)
    /\ state[1] # state[2]

\* the Hamming distance between the branch output of bit b on register st
\* and a received pair
BranchMetric(b, st, pair) ==
    LET out == calculateOutput(b, st, idx_y, idx_z)
    IN  PairDistance(<<StrOf(out.y), StrOf(out.z)>>, pair)

RECURSIVE PathMetric(_, _, _)
\* the sum of the branch metrics of the bits j.. of a path (latest decided bit
\* first) whose latest bit answers pair base+1
PathMetric(path, base, j) ==
    IF j > Len(path) THEN 0
    ELSE BranchMetric(IntOf(path[j]), RegisterAt(path, j, Cfg[1]), input_pairs[base + j])
         + PathMetric(path, base, j + 1)

\* C17: in every decoding step each branch metric is the Hamming distance (0,
\* 1 or 2) between the branch output and the received pair; the error_count
\* of every new survivor is a natural number, is that of the survivor it was
\* extended from plus the branch metric, hence not less, and is the sum of the
\* branch metrics along its own path.
C17_MetricInvariant ==
    [][ StepTaken =>
          /\ \A m \in 1..Len(paths) : \A b \in {0, 1} :
                LET d == calculateHammingDist(b, paths[m].state, idx_y, idx_z,
                                              input_pairs[i])
                IN  /\ d.dist = BranchMetric(b, paths[m].state, input_pairs[i])
                    /\ d.dist \in 0..2
          /\ \A n \in 1..Len(paths') :
                LET q == paths'[n]
                IN  /\ q.err \in Nat
                    /\ q.err = PathMetric(q.path, i', 1)
                    /\ \E m \in 1..Len(paths) :
                          /\ q.path = <<q.path[1]>> \o paths[m].path
                          /\ q.err >= paths[m].err
                          /\ q.err = paths[m].err
                                + BranchMetric(IntOf(q.path[1]), paths[m].state,
                                               input_pairs[i]) ]_vars

\* C17 witness: after two steps or more a survivor has an error_count of 3 or
\* more, gathered over several branches
C17_Witness ==
    /\ pc = "decode_loop" /\ StepsDone >= 2
    /\ \E n \in 1..Len(paths) : paths[n].err >= 3

\* C18: after k decoding steps every survivor's path has k bits and its
\* register has X cells: the latest min(k, X) bits of the path, the latest
\* first, then zeros.
C18_StatePathConsistency ==
    (op = "decode" /\ pc = "decode_loop" /\ Cfg[1] >= 1) =>
        \A n \in 1..Len(paths) :
           LET p == paths[n]
               X == Cfg[1]
               k == StepsDone
           IN  /\ Len(p.path) = k
               /\ Len(p.state) = X
               /\ \A c \in 1..X :
                     p.state[c] = IF c <= Min(k, X) THEN IntOf(p.path[c]) ELSE 0

\* C18 witness: fewer steps than cells were made and a survivor's register
\* holds a decided 1 before its remaining zeros
C18_Witness ==
    /\ op = "decode" /\ pc = "decode_loop"
    /\ StepsDone >= 1 /\ StepsDone < Cfg[1]
    /\ \E n \in 1..Len(paths) : paths[n].state[1] = 1

\* the orders in which a list of n candidates may have been generated: every
\* permutation of a short list; of a longer one every exchange of two
\* candidates, and the reverse order
Perms(n) == {f \in [1..n -> 1..n] : \A a, b \in 1..n : a # b => f[a] # f[b]}
Swaps(n) ==
    {[k \in 1..n |-> IF k = a THEN b ELSE IF k = b THEN a ELSE k] : a, b \in 1..n}
        \cup {[k \in 1..n |-> n + 1 - k]}
Orders(n) == IF n <= MaxPermLen THEN Perms(n) ELSE Swaps(n)

Reordered(ps, o) == [k \in 1..Len(ps) |-> ps[o[k]]]

\* the candidates of the next decoding step, generated sequentially
NextCandidates == EvalAll(paths, idx_y, idx_z, input_pairs[i])

StepPending == op = "decode" /\ pc = "decode_loop" /\ i >= 1

\* C16 as stated: whatever the order in which the candidates of a step are
\* generated, the reduction keeps the same survivors as the sequential order.
C16_OrderIndependence ==
    (StepPending /\ NextCandidates.exc = "none") =>
        LET new_paths == NextCandidates.new
            sequential == ReducePaths(new_paths)
        IN  \A o \in Orders(Len(new_paths)) :
               LET reduced == ReducePaths(Reordered(new_paths, o))
               IN  {reduced[n] : n \in 1..Len(reduced)}
                       = {sequential[n] : n \in 1..Len(sequential)}

\* C16 as amended: whatever the order in which the candidates of a step are
\* generated, the reduction keeps the same register states with the same
\* error_count as the sequential order, in the same list order; the survivor
\* kept for a state is the same one when a single candidate reaching that state
\* has the least error_count.
C16_OrderIndependentMetrics ==
    (StepPending /\ NextCandidates.exc = "none") =>
        LET new_paths == NextCandidates.new
            sequential == ReducePaths(new_paths)
        IN  \A o \in Orders(Len(new_paths)) :
               LET reduced == ReducePaths(Reordered(new_paths, o))
               IN  /\ Len(reduced) = Len(sequential)
                   /\ \A n \in 1..Len(reduced) :
                         /\ reduced[n].state = sequential[n].state
                         /\ reduced[n].err = sequential[n].err
                         /\ Cardinality({k \in 1..Len(new_paths) :
                                            /\ new_paths[k].state = sequential[n].state
                                            /\ new_paths[k].err = sequential[n].err}) = 1
                               => reduced[n] = sequential[n]

\* C16 witness: an order of generation after which a state keeps another path
C16_Witness ==
    /\ StepPending /\ NextCandidates.exc = "none"
    /\ LET new_paths == NextCandidates.new
           sequential == ReducePaths(new_paths)
       IN  \E o \in Orders(Len(new_paths)) :
              \E n \in 1..Len(sequential) :
                 LET reduced == ReducePaths(Reordered(new_paths, o))
                 IN  /\ reduced[n].state = sequential[n].state
                     /\ reduced[n].err = sequential[n].err
                     /\ reduced[n].path # sequential[n].path

\* C19: decode of any string of "0" and "1", of any length, under a valid
\* config ends without error; with fewer than X+8 pairs the message is empty,
\* and it never has more than floor((M - X) / 8) characters, M being the number
\* of pairs.
C19_DecodeAnyLength ==
    (op = "decode" /\ Valid /\ Ended) =>
        LET M == Len(input_str) \div 2
            X == Cfg[1]
        IN  /\ pc = "returned"
            /\ M < X + 8 => Joined = <<>>
            /\ Len(Joined) <= Max(M - X, 0) \div 8

====
